---- MODULE Spec2Model ----
(***************************************************************************)
(* Model of lib_fits: the FITS writer ofits<Args...> and the FITS reader   *)
(* ifits (lib_fits.hpp).  The file is modelled byte by byte: a byte is a   *)
(* one-character string, NUL is the zero byte a hole of the file reads as. *)
(***************************************************************************)
EXTENDS Integers, Sequences, FiniteSets, TLC

VARIABLES
    file,      \* the file on disk: the sequence of its bytes
    w,         \* the ofits object: [state, hdus], hdus the tuple of ofits::hdu
    pending,   \* async writes issued and not yet completed (io_context_)
    rdr,       \* the ifits object: [state, hdus], hdus the list of ifits::hdu
    res,       \* outcome of the last library call
    sets,      \* the value_as calls that returned normally: [hdu, key, val], in order
    lastw,     \* the last data write that reached the file and was not written over
    ops,       \* number of writer calls made after construction
    io         \* the io_context_ of the writer: [stopped, calls], calls the
               \* invocations of completion tokens [id, ec, n], in order

vars == <<file, w, pending, rdr, res, sets, lastw, ops, io>>

-----------------------------------------------------------------------------
(* Bounds of the model *)

\* writer calls made after construction
MaxOps == 2

\* asynchronous writes queued at a time
MaxPending == 2

\* HDUs of a schema
MaxHdus == 3

\* the number of values of std::size_t: its arithmetic wraps at SizeMod (at
\* 2^64 in the program)
SizeMod == 1048576

\* the number of values of int: IntMin..IntMax (2^32 values, from -2^31, in
\* the program)
IntMod == 4096

-----------------------------------------------------------------------------
(* Program constants *)

kSizeHeaderBlock == 2880

kRecord == 80

kKeyField == 8

kValueField == 30

NUL == "NUL"

Max(a, b) == IF a >= b THEN a ELSE b

\* a sum or difference of std::size_t values
Wrap(x) == x % SizeMod

IntMax == (IntMod - 1) \div 2
IntMin == IntMax + 1 - IntMod

\* the int that two's-complement arithmetic gives for the value x
IntWrap(x) == ((x - IntMin) % IntMod) + IntMin

\* a product of std::size_t values, a and b below SizeMod (by doubling, so that
\* no intermediate value leaves the range of the integers of the model checker)
RECURSIVE Mul(_, _)
Mul(a, b) ==
    IF b = 0 THEN 0
    ELSE Wrap(2 * Mul(a, b \div 2) + (IF b % 2 = 1 THEN a ELSE 0))

\* F of the value of v: the result of a call, named once and used many times
Bind(v, F(_)) == F(v)

Abs(x) == IF x < 0 THEN 0 - x ELSE x

-----------------------------------------------------------------------------
(* Text: std::string as a sequence of one-character strings *)

Digits == <<"0", "1", "2", "3", "4", "5", "6", "7", "8", "9">>

IsDigit(c) == \E d \in 1..10 : Digits[d] = c

DigitVal(c) == (CHOOSE d \in 1..10 : Digits[d] = c) - 1

RECURSIVE NatToString(_)
NatToString(n) ==
    IF n < 10 THEN <<Digits[n + 1]>>
    ELSE NatToString(n \div 10) \o <<Digits[(n % 10) + 1]>>

\* std::to_string
to_string(n) == IF n < 0 THEN <<"-">> \o NatToString(0 - n) ELSE NatToString(n)

\* std::string::resize(n, ' ')
Resize(s, n) ==
    [i \in 1..n |-> IF i <= Len(s) THEN s[i] ELSE " "]

\* boost::algorithm::erase_all(s, c) for a one-character c
erase_all(s, c) == SelectSeq(s, LAMBDA x : x # c)

\* std::string::find(c): the first position (from 0) of c, or -1 (npos)
Find(s, c) ==
    IF \E i \in 1..Len(s) : s[i] = c
    THEN (CHOOSE i \in 1..Len(s) : s[i] = c /\ \A j \in 1..(i - 1) : s[j] # c) - 1
    ELSE -1

UpperCase == <<"A", "B", "C", "D", "E", "F", "G", "H", "I", "J", "K", "L", "M",
               "N", "O", "P", "Q", "R", "S", "T", "U", "V", "W", "X", "Y", "Z">>

LowerCase == <<"a", "b", "c", "d", "e", "f", "g", "h", "i", "j", "k", "l", "m",
               "n", "o", "p", "q", "r", "s", "t", "u", "v", "w", "x", "y", "z">>

LowerMap ==
    [c \in {UpperCase[i] : i \in 1..26} |->
        LowerCase[CHOOSE i \in 1..26 : UpperCase[i] = c]]

\* std::tolower
UpperSet == DOMAIN LowerMap

tolower(c) == IF c \in UpperSet THEN LowerMap[c] ELSE c

Lower(s) == [i \in 1..Len(s) |-> tolower(s[i])]

\* CaseInsensitiveEqual::operator(): equal lengths and equal characters once
\* both sides are lowered
CaseInsensitiveEqual(a, b) == Lower(a) = Lower(b)

-----------------------------------------------------------------------------
(* The file: boost::asio::random_access_file, positional I/O *)

EmptyFile == <<>>

Min(a, b) == IF a <= b THEN a ELSE b

Nuls(n) == [i \in 1..n |-> NUL]

\* boost::asio::write_at(file_, position, buffer): all of buf at pos; the
\* bytes between the old end of the file and pos are a hole
write_at(f, pos, buf) ==
    IF Len(buf) = 0 THEN f
    ELSE SubSeq(f, 1, Min(pos, Len(f))) \o Nuls(pos - Len(f)) \o buf
           \o SubSeq(f, pos + Len(buf) + 1, Len(f))

\* boost::asio::read_at(file_, offset, buffer): fills the buffer or ends at
\* the end of the file (error eof, with the bytes read so far)
read_at(f, pos, n) ==
    LET got == IF pos >= Len(f) THEN 0
               ELSE IF pos + n <= Len(f) THEN n ELSE Len(f) - pos
    IN [eof  |-> got < n,
        n    |-> got,
        data |-> SubSeq(f, pos + 1, pos + got)]

-----------------------------------------------------------------------------
(* ofits: the writer *)

Types == {"u8", "i16", "i32", "i64", "f32", "f64"}

\* sizeof(T)
SizeOf(t) ==
    CASE t = "u8" -> 1 [] t = "i16" -> 2 [] t = "i32" -> 4
      [] t = "i64" -> 8 [] t = "f32" -> 4 [] t = "f64" -> 8

\* a variant of get_bitpix_for_type that forgets the sign of the floating types
bitpix_unsigned(t) == 8 * SizeOf(t)

\* ofits::hdu::get_bitpix_for_type
get_bitpix_for_type(t) ==
    CASE t = "u8" -> 8 [] t = "i16" -> 16 [] t = "i32" -> 32
      [] t = "i64" -> 64 [] t = "f32" -> -32 [] t = "f64" -> -64

RECURSIVE Product(_)
Product(s) == IF s = <<>> THEN 1 ELSE Head(s) * Product(Tail(s))

\* naxis_product of ofits::hdu::hdu, std::accumulate of make_hdu_tuple: init
\* times the extents, in std::size_t (a product that wraps does not depend on
\* the order of its factors)
RECURSIVE naxis_product(_, _)
naxis_product(init, s) ==
    IF s = <<>> THEN init ELSE Mul(Head(s), naxis_product(init, Tail(s)))

\* a variant of round_offset that also moves a multiple of the block size up
round_offset_next(offset) ==
    (offset \div kSizeHeaderBlock + 1) * kSizeHeaderBlock

\* ofits::round_offset
ofits_round_offset(offset) ==
    IF offset % kSizeHeaderBlock = 0 THEN offset
    ELSE Mul(offset \div kSizeHeaderBlock + 1, kSizeHeaderBlock)

\* the 80-byte record "KEY = VALUE" of write_header and value_as
MakeRecord(key, value) == Resize(key \o <<" ", "=", " ">> \o value, kRecord)

EndRecord == Resize(<<"E", "N", "D">>, kRecord)

K_SIMPLE == <<"S", "I", "M", "P", "L", "E">>
K_BITPIX == <<"B", "I", "T", "P", "I", "X">>
K_NAXIS == <<"N", "A", "X", "I", "S">>
K_EXTEND == <<"E", "X", "T", "E", "N", "D">>
K_END == <<"E", "N", "D">>

\* ofits::hdu::write_header on the state st = [file, hw, threw] of a
\* constructor run; once a call has thrown the rest of the constructor is skipped
write_header(st, offset, key, value) ==
    IF st.threw THEN st
    ELSE IF key = K_END
    THEN [st EXCEPT !.file = write_at(st.file, st.hw * kRecord + offset, EndRecord)]
    ELSE IF st.hw * kRecord < kSizeHeaderBlock
    THEN [st EXCEPT !.file = write_at(st.file, st.hw * kRecord + offset,
                                      MakeRecord(key, value)),
                    !.hw = st.hw + 1]
    ELSE [st EXCEPT !.threw = TRUE]

RECURSIVE WriteHeaders(_, _, _)
WriteHeaders(st, offset, items) ==
    IF items = <<>> THEN st
    ELSE WriteHeaders(write_header(st, offset, Head(items)[1], Head(items)[2]),
                      offset, Tail(items))

\* ofits::hdu::hdu: the records the constructor emits, in order
CtorRecords(type, axes) ==
    <<  <<K_SIMPLE, <<"T">> >>,
        <<K_BITPIX, to_string(get_bitpix_for_type(type))>>,
        <<K_NAXIS, to_string(Len(axes))>> >>
    \o [i \in 1..Len(axes) |-> <<K_NAXIS \o to_string(i), to_string(axes[i])>>]
    \o << <<K_EXTEND, <<"T">> >>, <<K_END, <<>> >> >>

\* ofits::hdu::hdu: [file, hdu, threw]
hdu_ctor(f, offset, type, axes) ==
    LET st == WriteHeaders([file |-> f, hw |-> 0, threw |-> FALSE], offset,
                           CtorRecords(type, axes))
    IN [file  |-> st.file,
        threw |-> st.threw,
        hdu   |-> [type            |-> type,
                   offset          |-> offset,
                   headers_written |-> st.hw,
                   naxis           |-> axes,
                   data_block_size |->
                       Mul(naxis_product(1, axes),
                           Abs(get_bitpix_for_type(type))) \div 8]]

\* ofits::make_hdu_tuple: the start offset of every HDU of the schema
RECURSIVE make_hdu_offsets(_, _)
make_hdu_offsets(schema, current_offset) ==
    IF schema = <<>> THEN <<>>
    ELSE <<current_offset>> \o
         make_hdu_offsets(Tail(schema),
             Wrap(current_offset + kSizeHeaderBlock
                    + ofits_round_offset(naxis_product(SizeOf(Head(schema).type),
                                                       Head(schema).axes))))

\* ofits::make_hdu_tuple_impl: the HDU constructors run one after the other in
\* the order `order` (the evaluation order of the arguments of make_tuple is
\* unspecified); a constructor that throws ends the process (noexcept)
RECURSIVE make_hdu_tuple_impl(_, _, _, _, _)
make_hdu_tuple_impl(f, schema, offsets, order, acc) ==
    IF order = <<>> THEN [file |-> f, hdus |-> acc, threw |-> FALSE]
    ELSE LET i == Head(order)
             c == hdu_ctor(f, offsets[i], schema[i].type, schema[i].axes)
         IN IF c.threw THEN [file |-> c.file, hdus |-> <<>>, threw |-> TRUE]
            ELSE make_hdu_tuple_impl(c.file, schema, offsets, Tail(order),
                                     [acc EXCEPT ![i] = c.hdu])

Ones(n) == [i \in 1..n |-> 1]

H(t, a) == [type |-> t, axes |-> a]

\* the schemas writers are constructed with
Schemas ==
    { << H("u8", <<2, 3>>) >>,
      << H("u8", <<2, 3>>), H("f32", <<2, 3, 2>>) >>,
      << H("i16", Ones(31)) >>,
      << H("i16", Ones(32)) >>,
      << H("i16", Ones(33)) >> }

\* a variant of ofits::hdu::value_as that does not count the record it writes
value_as_uncounted(f, h, key, value) ==
    IF h.headers_written * kRecord < kSizeHeaderBlock
    THEN LET f1 == write_at(f, h.headers_written * kRecord + h.offset,
                            MakeRecord(key, value))
         IN [file  |-> write_at(f1, (h.headers_written + 1) * kRecord + h.offset,
                                EndRecord),
             hdu   |-> h,
             threw |-> FALSE]
    ELSE [file |-> f, hdu |-> h, threw |-> TRUE]

\* a variant of ofits::hdu::value_as that writes the record and END before it
\* looks for space
value_as_write_first(f, h, key, value) ==
    LET f1 == write_at(f, h.headers_written * kRecord + h.offset,
                       MakeRecord(key, value))
        hw == h.headers_written + 1
    IN [file  |-> write_at(f1, hw * kRecord + h.offset, EndRecord),
        hdu   |-> [h EXCEPT !.headers_written = hw],
        threw |-> ~(h.headers_written * kRecord < kSizeHeaderBlock)]

\* ofits::hdu::value_as(key, value): [file, hdu, threw]
ofits_hdu_value_as(f, h, key, value) ==
    IF h.headers_written * kRecord < kSizeHeaderBlock
    THEN LET f1 == write_at(f, h.headers_written * kRecord + h.offset,
                            MakeRecord(key, value))
             hw == h.headers_written + 1
         IN [file  |-> write_at(f1, hw * kRecord + h.offset, EndRecord),
             hdu   |-> [h EXCEPT !.headers_written = hw],
             threw |-> FALSE]
    ELSE [file |-> f, hdu |-> h, threw |-> TRUE]

\* the product of naxis_[j] for the positions j = from, from - 1, ..., 2
RECURSIVE AxisProduct(_, _)
AxisProduct(naxis, from) ==
    IF from < 2 THEN 1 ELSE Mul(naxis[from], AxisProduct(naxis, from - 1))

\* a variant of ofits::hdu::calculate_offset that does not compare the length
\* of the index list with the number of axes
calculate_offset_unsized(h, index, ub) ==
    LET n == Len(h.naxis)
        first == IF index = <<>> THEN ub ELSE index[1] > h.naxis[1]
    IN IF first THEN [threw |-> TRUE, offset |-> 0]
       ELSE LET terms == [d \in 1..Len(index) |->
                             Mul(index[d], AxisProduct(h.naxis, n - (d - 1)))]
                RECURSIVE Sum(_)
                Sum(s) == IF s = <<>> THEN 0 ELSE Wrap(Head(s) + Sum(Tail(s)))
            IN [threw |-> FALSE, offset |-> Mul(Sum(terms), SizeOf(h.type))]

\* ofits::hdu::calculate_offset(index): [threw, offset].  `ub` is the outcome
\* of the first check when the index list is empty (*it reads past the list)
ofits_calculate_offset(h, index, ub) ==
    LET n == Len(h.naxis)
        first == IF index = <<>> THEN ub ELSE index[1] > h.naxis[1]
    IN IF first THEN [threw |-> TRUE, offset |-> 0]
       ELSE IF Len(index) > n THEN [threw |-> TRUE, offset |-> 0]
       ELSE LET terms == [d \in 1..Len(index) |->
                             Mul(index[d], AxisProduct(h.naxis, n - (d - 1)))]
                RECURSIVE Sum(_)
                Sum(s) == IF s = <<>> THEN 0 ELSE Wrap(Head(s) + Sum(Tail(s)))
            IN [threw |-> FALSE, offset |-> Mul(Sum(terms), SizeOf(h.type))]

\* the checks ofits::hdu::write_data and async_write_data share:
\* [threw, offset (in the data block), pos (in the file)]
ofits_write_check(h, index, buf, ub) ==
    LET c == ofits_calculate_offset(h, index, ub)
    IN IF c.threw THEN [threw |-> TRUE, offset |-> 0, pos |-> 0]
       ELSE IF Wrap(Len(buf) + c.offset) > h.data_block_size
       THEN [threw |-> TRUE, offset |-> c.offset, pos |-> 0]
       ELSE [threw  |-> FALSE, offset |-> c.offset,
             pos    |-> Wrap(h.offset + kSizeHeaderBlock + c.offset)]

-----------------------------------------------------------------------------
(* ifits: the reader *)

\* ifits::hdu::round_offset
ifits_round_offset(offset) ==
    IF offset % kSizeHeaderBlock = 0 THEN offset
    ELSE Mul(offset \div kSizeHeaderBlock + 1, kSizeHeaderBlock)

SubSeqFrom(s, from, n) == [i \in 1..n |-> s[from + i - 1]]

\* the characters boost::algorithm::trim takes for white space (std::isspace
\* in the classic locale; the vertical tab, which has no escape here, is left
\* out)
WhiteSpace == {" ", "\t", "\n", "\f", "\r"}

\* boost::algorithm::trim(s): s without its leading and trailing white space
Trim(s) ==
    LET ks == {k \in 1..Len(s) : s[k] \notin WhiteSpace}
    IN IF ks = {} THEN <<>>
       ELSE SubSeq(s, CHOOSE k \in ks : \A j \in ks : k <= j,
                      CHOOSE k \in ks : \A j \in ks : j <= k)

\* a variant of the keyword parse without the trim
parse_key_untrimmed(buffer) ==
    erase_all(erase_all(SubSeqFrom(buffer, 1, kKeyField), " "), "=")

\* the keyword and the value ifits::hdu::extract_next_HDU takes from one record
ParseKey(buffer) ==
    erase_all(erase_all(Trim(SubSeqFrom(buffer, 1, kKeyField)), " "), "=")

ParseValue(buffer) ==
    LET value == SubSeqFrom(buffer, kKeyField + 1, kValueField)
        found == Find(value, "/")
        cut   == IF found # -1 THEN SubSeqFrom(buffer, kKeyField + 1, found)
                 ELSE value
    IN erase_all(erase_all(cut, " "), "=")

\* the loop of ifits::hdu::extract_next_HDU: [threw, headers, offset], offset
\* that of the END record; read_at throws at the end of the file
RECURSIVE ReadRecords(_, _, _)
ReadRecords(f, offset, headers) ==
    LET r == read_at(f, offset, kRecord)
    IN IF r.eof THEN [threw |-> TRUE, headers |-> headers, offset |-> offset]
       ELSE IF ParseKey(r.data) = K_END
       THEN [threw |-> FALSE, headers |-> headers, offset |-> offset]
       ELSE ReadRecords(f, offset + kRecord,
                        Append(headers, [key   |-> ParseKey(r.data),
                                         value |-> ParseValue(r.data),
                                         lkey  |-> Lower(ParseKey(r.data))]))

\* ifits::hdu::extract_next_HDU(offset): [threw, hdu, next]
extract_next_HDU(f, offset) ==
    Bind(ReadRecords(f, offset, <<>>), LAMBDA r :
        LET offset_ == ifits_round_offset(r.offset)
        IN [threw |-> r.threw,
            hdu   |-> [headers |-> r.headers, offset_ |-> offset_],
            next  |-> ifits_round_offset(offset_)])

\* headers_.find(key) of the unordered_multimap: the position of an element
\* whose keyword equals key without regard to case (CaseInsensitiveEqual: both
\* lowered are equal; lkey is the lowered keyword, kept with the element as
\* the container keeps its hash), 0 when there is none.
\* Which of several equal keywords is found is left to the standard library:
\* `policy` is "first" (the oldest) or "last" (the newest)
headers_find(headers, key, policy) ==
    LET k == Lower(key)
        hits == {i \in 1..Len(headers) : headers[i].lkey = k}
    IN IF hits = {} THEN 0
       ELSE IF policy = "first"
       THEN CHOOSE i \in hits : \A j \in hits : i <= j
       ELSE CHOOSE i \in hits : \A j \in hits : i >= j

RECURSIVE DigitsValue(_, _)
DigitsValue(s, acc) ==
    IF s = <<>> \/ ~IsDigit(Head(s)) THEN acc
    ELSE DigitsValue(Tail(s), acc * 10 + DigitVal(Head(s)))

RECURSIVE DigitsCount(_)
DigitsCount(s) ==
    IF s = <<>> \/ ~IsDigit(Head(s)) THEN 0 ELSE 1 + DigitsCount(Tail(s))

\* std::stoi: [threw, val]; throws without a leading number, and when the
\* number does not fit an int
stoi(s) ==
    LET neg  == s # <<>> /\ Head(s) = "-"
        body == IF s # <<>> /\ Head(s) \in {"-", "+"} THEN Tail(s) ELSE s
        k    == DigitsCount(body)
        v    == IF neg THEN 0 - DigitsValue(body, 0) ELSE DigitsValue(body, 0)
    IN IF k = 0 \/ k > 9 THEN [threw |-> TRUE, val |-> 0]
       ELSE IF v < IntMin \/ v > IntMax THEN [threw |-> TRUE, val |-> 0]
       ELSE [threw |-> FALSE, val |-> v]

\* the integer value of header `key`: [threw, val]
header_int(h, key, policy) ==
    LET i == headers_find(h.headers, key, policy)
    IN IF i = 0 THEN [threw |-> TRUE, val |-> 0]
       ELSE stoi(h.headers[i].value)

\* ifits::hdu::get_NAXIS
get_NAXIS(h, policy) == header_int(h, K_NAXIS, policy)

\* ifits::hdu::get_BITPIX
get_BITPIX(h, policy) == header_int(h, K_BITPIX, policy)

\* the loop of ifits::hdu::get_NAXIS_product, `int product` times NAXISi for
\* i = from..to: [threw, val], val the int two's-complement arithmetic gives
RECURSIVE NaxisProduct(_, _, _, _)
NaxisProduct(h, from, to, policy) ==
    IF from > to THEN [threw |-> FALSE, val |-> 1]
    ELSE LET x == header_int(h, K_NAXIS \o to_string(from), policy)
             rest == NaxisProduct(h, from + 1, to, policy)
         IN IF x.threw \/ rest.threw THEN [threw |-> TRUE, val |-> 0]
            ELSE [threw |-> FALSE, val |-> IntWrap(x.val * rest.val)]

\* whether `product *= std::stoi(...)` leaves the range of int for some
\* i = from..to, product being acc before: a signed overflow, which is
\* undefined behaviour
RECURSIVE NaxisOverflow(_, _, _, _, _)
NaxisOverflow(h, from, to, acc, policy) ==
    IF from > to THEN FALSE
    ELSE LET x == header_int(h, K_NAXIS \o to_string(from), policy)
         IN IF x.threw THEN FALSE
            ELSE \/ acc * x.val < IntMin
                 \/ acc * x.val > IntMax
                 \/ NaxisOverflow(h, from + 1, to, IntWrap(acc * x.val), policy)

\* whether get_NAXIS_product of h overflows its int
product_overflows(h, policy) ==
    Bind(get_NAXIS(h, policy), LAMBDA n :
        ~n.threw /\ NaxisOverflow(h, 1, n.val, 1, policy))

\* ifits::hdu::get_NAXIS_product: the int product returned as std::size_t
get_NAXIS_product(h, policy) ==
    Bind(get_NAXIS(h, policy), LAMBDA n :
        IF n.threw THEN n
        ELSE Bind(NaxisProduct(h, 1, n.val, policy), LAMBDA p :
                 [threw |-> p.threw, val |-> Wrap(p.val)]))

\* ifits::hdu::calculate_data_block_size: [threw, val]
calculate_data_block_size(h, policy) ==
    Bind(get_NAXIS_product(h, policy), LAMBDA p :
    Bind(get_BITPIX(h, policy), LAMBDA b :
        IF p.threw \/ b.threw THEN [threw |-> TRUE, val |-> 0]
        ELSE [threw |-> FALSE,
              val   |-> ifits_round_offset(Mul(p.val, Abs(b.val)) \div 8)]))

\* a variant of the HDU loop of ifits::ifits that does not move on after the
\* first pass over an HDU and records every HDU twice
RECURSIVE ifits_ctor_twice(_, _, _, _, _)
ifits_ctor_twice(f, next_hdu_offset, hdus, policy, ub) ==
    Bind(extract_next_HDU(f, next_hdu_offset), LAMBDA e :
    Bind(calculate_data_block_size(e.hdu, policy), LAMBDA size :
        LET next == Wrap(e.next + size.val)
            over == ub \/ product_overflows(e.hdu, policy)
        IN IF e.threw \/ size.threw
           THEN [state |-> "terminated", hdus |-> <<>>, ub |-> over]
           ELSE IF Len(f) <= next
           THEN [state |-> "open", hdus |-> Append(Append(hdus, e.hdu), e.hdu),
                 ub |-> over]
           ELSE ifits_ctor_twice(f, next, Append(Append(hdus, e.hdu), e.hdu),
                                 policy, over)))

\* ifits::ifits(filename): the HDU loop, [state, hdus, ub]; every exception is
\* thrown inside a noexcept function and ends the process.  The products are
\* those of wrapping int arithmetic; ub tells whether a signed overflow
\* happened in get_NAXIS_product on the way (before: `ub`), which is
\* undefined behaviour
RECURSIVE ifits_ctor(_, _, _, _, _)
ifits_ctor(f, next_hdu_offset, hdus, policy, ub) ==
    Bind(extract_next_HDU(f, next_hdu_offset), LAMBDA e :
    Bind(calculate_data_block_size(e.hdu, policy), LAMBDA size :
        LET next == Wrap(e.next + size.val)
            over == ub \/ product_overflows(e.hdu, policy)
        IN IF e.threw \/ size.threw
           THEN [state |-> "terminated", hdus |-> <<>>, ub |-> over]
           ELSE IF Len(f) <= next
           THEN [state |-> "open", hdus |-> Append(hdus, e.hdu), ub |-> over]
           ELSE ifits_ctor(f, next, Append(hdus, e.hdu), policy, over)))

\* a variant of ifits::hdu::value_as that returns a blank value for a keyword
\* no header has
value_as_or_blank(h, key, policy) ==
    LET i == headers_find(h.headers, key, policy)
    IN IF i = 0 THEN [status |-> "ok", out |-> <<>>]
       ELSE IF h.headers[i].value = <<>>
       THEN [status |-> "ParseError", out |-> <<>>]
       ELSE [status |-> "ok", out |-> h.headers[i].value]

\* ifits::hdu::value_as<std::string>(key): [status, out]
ifits_value_as(h, key, policy) ==
    LET i == headers_find(h.headers, key, policy)
    IN IF i = 0 THEN [status |-> "NotFound", out |-> <<>>]
       ELSE IF h.headers[i].value = <<>>
       THEN [status |-> "ParseError", out |-> <<>>]
       ELSE [status |-> "ok", out |-> h.headers[i].value]

\* ifits::hdu::value_as_optional<std::string>(key): [status, out], the status
\* "empty" for std::nullopt
ifits_value_as_optional(h, key, policy) ==
    LET i == headers_find(h.headers, key, policy)
    IN IF i = 0 THEN [status |-> "empty", out |-> <<>>]
       ELSE IF h.headers[i].value = <<>>
       THEN [status |-> "ParseError", out |-> <<>>]
       ELSE [status |-> "ok", out |-> h.headers[i].value]

\* the element size ifits::hdu::apply selects: [status, size]
apply_size(h, policy) ==
    Bind(get_BITPIX(h, policy), LAMBDA b :
        IF b.threw THEN [status |-> "NotFound", size |-> 0]
        ELSE IF b.val \in {8, 16, 32, 64, -32, -64}
        THEN [status |-> "ok", size |-> Abs(b.val) \div 8]
        ELSE [status |-> "UnsupportedBitpix", size |-> 0])

\* the product of NAXISj for j = from, from - 1, ..., 2: [threw, val]; from
\* below 1 the loop runs on to keywords that no header has
RECURSIVE ReaderAxisProduct(_, _, _)
ReaderAxisProduct(h, from, policy) ==
    IF from = 1 THEN [threw |-> FALSE, val |-> 1]
    ELSE IF from < 1 THEN [threw |-> TRUE, val |-> 0]
    ELSE LET x == header_int(h, K_NAXIS \o to_string(from), policy)
             rest == ReaderAxisProduct(h, from - 1, policy)
         IN IF x.threw \/ rest.threw THEN [threw |-> TRUE, val |-> 0]
            ELSE [threw |-> FALSE, val |-> Mul(rest.val, Wrap(x.val))]

RECURSIVE ReaderOffsetSum(_, _, _, _, _)
ReaderOffsetSum(h, index, d, naxis_size, policy) ==
    IF d > Len(index) THEN [threw |-> FALSE, val |-> 0]
    ELSE LET x == ReaderAxisProduct(h, naxis_size - (d - 1), policy)
             rest == ReaderOffsetSum(h, index, d + 1, naxis_size, policy)
         IN IF x.threw \/ rest.threw THEN [threw |-> TRUE, val |-> 0]
            ELSE [threw |-> FALSE, val |-> Wrap(Mul(index[d], x.val) + rest.val)]

\* ifits::hdu::calculate_offset(index): [status, offset], in elements
ifits_calculate_offset(h, index, policy) ==
    Bind(get_NAXIS(h, policy), LAMBDA n :
        IF n.threw THEN [status |-> "NotFound", offset |-> 0]
        ELSE IF n.val >= 0 /\ Len(index) > n.val
        THEN [status |-> "OutOfBounds", offset |-> 0]
        ELSE Bind(ReaderOffsetSum(h, index, 1, n.val, policy), LAMBDA s :
                 IF s.threw THEN [status |-> "NotFound", offset |-> 0]
                 ELSE [status |-> "ok", offset |-> s.val]))

\* ifits::hdu::apply with image_hdu<T>::read_data(index, buffers), the buffer
\* of n bytes: [status, off, out, n]
ifits_read_data(f, h, index, n, policy) ==
    Bind(apply_size(h, policy), LAMBDA a :
    Bind(ifits_calculate_offset(h, index, policy), LAMBDA c :
    Bind(calculate_data_block_size(h, policy), LAMBDA size :
        LET offset == Mul(a.size, c.offset)
            r == read_at(f, Wrap(h.offset_ + offset), n)
        IN IF a.status # "ok"
           THEN [status |-> a.status, off |-> 0, out |-> <<>>, n |-> 0]
           ELSE IF c.status # "ok"
           THEN [status |-> c.status, off |-> 0, out |-> <<>>, n |-> 0]
           ELSE IF size.threw
           THEN [status |-> "terminate", off |-> offset, out |-> <<>>, n |-> 0]
           ELSE IF offset > Wrap(size.val + h.offset_)
           THEN [status |-> "OutOfBounds", off |-> offset, out |-> <<>>, n |-> 0]
           ELSE IF r.eof
           THEN [status |-> "Io", off |-> offset, out |-> r.data, n |-> r.n]
           ELSE [status |-> "ok", off |-> offset, out |-> r.data, n |-> r.n])))

\* a variant of ifits::hdu::apply that selects the view by the element size
\* alone, an integer view for the floating types
apply_by_size(h, policy) ==
    Bind(get_BITPIX(h, policy), LAMBDA b :
        IF b.threw THEN [status |-> "NotFound", type |-> <<>>, calls |-> 0]
        ELSE IF Abs(b.val) = 8 THEN [status |-> "ok", type |-> <<"u8">>, calls |-> 1]
        ELSE IF Abs(b.val) = 16 THEN [status |-> "ok", type |-> <<"i16">>, calls |-> 1]
        ELSE IF Abs(b.val) = 32 THEN [status |-> "ok", type |-> <<"i32">>, calls |-> 1]
        ELSE IF Abs(b.val) = 64 THEN [status |-> "ok", type |-> <<"i64">>, calls |-> 1]
        ELSE [status |-> "UnsupportedBitpix", type |-> <<>>, calls |-> 0])

\* ifits::hdu::apply(f) for a visitor f that returns normally: [status, type,
\* calls], type the element type T of the image_hdu<T> f is called with, calls
\* the number of calls of f
ifits_apply(h, policy) ==
    Bind(get_BITPIX(h, policy), LAMBDA b :
        IF b.threw THEN [status |-> "NotFound", type |-> <<>>, calls |-> 0]
        ELSE IF b.val = 8 THEN [status |-> "ok", type |-> <<"u8">>, calls |-> 1]
        ELSE IF b.val = 16 THEN [status |-> "ok", type |-> <<"i16">>, calls |-> 1]
        ELSE IF b.val = 32 THEN [status |-> "ok", type |-> <<"i32">>, calls |-> 1]
        ELSE IF b.val = 64 THEN [status |-> "ok", type |-> <<"i64">>, calls |-> 1]
        ELSE IF b.val = -32 THEN [status |-> "ok", type |-> <<"f32">>, calls |-> 1]
        ELSE IF b.val = -64 THEN [status |-> "ok", type |-> <<"f64">>, calls |-> 1]
        ELSE [status |-> "UnsupportedBitpix", type |-> <<>>, calls |-> 0])

NoRes == [op |-> "none", hdu |-> 0, key |-> <<>>, val |-> <<>>, index |-> <<>>,
          buf |-> <<>>, off |-> 0, status |-> "none", out |-> <<>>, n |-> 0]

NoWrite == [hdu |-> 0, index |-> <<>>, buf |-> <<>>, off |-> 0, pos |-> 0]

\* the io_context_ after construction: not stopped, no token invoked
NoIo == [stopped |-> FALSE, calls |-> <<>>]

\* two byte ranges [p, p + n) and [q, q + m) share a byte
Overlap(p, n, q, m) == n > 0 /\ m > 0 /\ p < q + m /\ q < p + n

\* lastw after a write of n bytes at pos that is not itself the data write
Shadow(pos, n) ==
    IF lastw.hdu # 0 /\ Overlap(pos, n, lastw.pos, Len(lastw.buf))
    THEN NoWrite ELSE lastw

Init ==
    /\ file = EmptyFile
    /\ w = [state |-> "none", hdus |-> <<>>]
    /\ pending = <<>>
    /\ rdr = [state |-> "none", hdus |-> <<>>, policy |-> "first"]
    /\ res = NoRes
    /\ sets = <<>>
    /\ lastw = NoWrite
    /\ ops = 0
    /\ io = NoIo

Orders(n) == { [i \in 1..n |-> i], [i \in 1..n |-> n + 1 - i] }

\* ofits::ofits(filename, schema)
Construct(schema, order) ==
    /\ w.state = "none"
    /\ \E offsets \in { make_hdu_offsets(schema, 0) } :
       \E c \in { make_hdu_tuple_impl(file, schema, offsets,
                                       order, [i \in 1..Len(schema) |-> <<>>]) } :
          /\ file' = c.file
          /\ w' = [state |-> IF c.threw THEN "terminated" ELSE "open",
                   hdus  |-> c.hdus]
          /\ res' = [NoRes EXCEPT !.op = "construct",
                                  !.status = IF c.threw THEN "terminate" ELSE "ok"]
    /\ UNCHANGED <<pending, rdr, sets, lastw, ops, io>>

\* the keywords and values value_as is called with
K_AB == <<"A", "B">>
K_DATEOBS == <<"D", "A", "T", "E", "-", "O", "B", "S">>
K_dateobs == <<"d", "a", "t", "e", "-", "o", "b", "s">>
K_NOKEY == <<"N", "O", "K", "E", "Y">>

\* a keyword that starts with a tab
K_TAB_AB == <<"\t", "A", "B">>

SetKeys == { K_AB, K_DATEOBS }

SetValues == { <<"7">>, <<>> }

\* the index lists and the buffers the data calls are made with
Indices == { <<>>, <<0>>, <<1, 2>>, <<0, 1, 0>>, <<3>>, <<0, SizeMod - 1>> }

Buffers == { <<"a">>, <<"b", "c">> }

\* one element of a four-byte type
Element4 == <<"d", "e", "f", "g">>

\* the (index, buffers) pairs of the data writes: every index above with one
\* byte, three of them with two bytes, one byte one past the end of the second
\* axis, and one four-byte element at the last index of 2 x 3 x 2 and at an
\* index of three components
DataCalls ==
    { c \in Indices \X Buffers :
          Len(c[2]) = 1 \/ c[1] \in { <<0>>, <<1, 2>>, <<0, SizeMod - 1>> } }
      \cup { << <<0, 3>>, <<"a">> >>, << <<1, 2, 1>>, Element4 >>,
             << <<0, 1, 0>>, Element4 >> }

\* the index lists of the data reads: those of the writes, and the first
\* element after a data block of one block
ReadIndices ==
    Indices \cup { <<0, 3>>, <<1, 2, 1>>, <<0, kSizeHeaderBlock>> }

UbOutcomes(index) == IF index = <<>> THEN BOOLEAN ELSE {FALSE}

\* ofits::value_as<N>(key, value)
SetHeader(N, key, value) ==
    /\ w.state = "open" /\ rdr.state = "none" /\ ops < MaxOps
    /\ N \in 1..Len(w.hdus)
    /\ \E r \in { ofits_hdu_value_as(file, w.hdus[N], key, value) } :
          /\ file' = r.file
          /\ w' = [w EXCEPT !.hdus[N] = r.hdu]
          /\ sets' = IF r.threw THEN sets
                     ELSE Append(sets, [hdu |-> N, key |-> key, val |-> value])
          /\ res' = [NoRes EXCEPT !.op = "value_as", !.hdu = N, !.key = key,
                                  !.val = value,
                                  !.status = IF r.threw THEN "HeaderFull" ELSE "ok"]
          /\ lastw' = IF r.threw THEN lastw
                      ELSE Shadow(w.hdus[N].headers_written * kRecord
                                    + w.hdus[N].offset, 2 * kRecord)
    /\ ops' = ops + 1
    /\ UNCHANGED <<pending, rdr, io>>

\* ofits::write_data<N>(index, buffers)
WriteData(N, index, buf, ub) ==
    /\ w.state = "open" /\ rdr.state = "none" /\ ops < MaxOps
    /\ N \in 1..Len(w.hdus)
    /\ \E c \in { ofits_write_check(w.hdus[N], index, buf, ub) } :
          /\ file' = IF c.threw THEN file ELSE write_at(file, c.pos, buf)
          /\ res' = [NoRes EXCEPT !.op = "write_data", !.hdu = N, !.index = index,
                                  !.buf = buf, !.off = c.offset,
                                  !.status = IF c.threw THEN "OutOfBounds" ELSE "ok",
                                  !.n = IF c.threw THEN 0 ELSE Len(buf)]
          /\ lastw' = IF c.threw THEN lastw
                      ELSE [hdu |-> N, index |-> index, buf |-> buf,
                            off |-> c.offset, pos |-> c.pos]
    /\ ops' = ops + 1
    /\ UNCHANGED <<w, pending, rdr, sets, io>>

\* a variant of ofits::hdu::async_write_data that queues the write before it
\* makes the checks
async_write_unchecked(h, N, index, buf, ub, queue, id) ==
    LET c == ofits_write_check(h, index, buf, ub)
    IN [threw  |-> c.threw,
        offset |-> c.offset,
        queue  |-> Append(queue, [hdu |-> N, index |-> index, buf |-> buf,
                                  off |-> c.offset, pos |-> c.pos, id |-> id])]

\* ofits::hdu::async_write_data(index, buffers, token) of HDU N: [threw,
\* offset, queue]; the checks are made by the caller, then async_write_at
\* queues the write, the id-th issued, on the io_context
ofits_async_write_data(h, N, index, buf, ub, queue, id) ==
    LET c == ofits_write_check(h, index, buf, ub)
    IN [threw  |-> c.threw,
        offset |-> c.offset,
        queue  |-> IF c.threw THEN queue
                   ELSE Append(queue, [hdu |-> N, index |-> index, buf |-> buf,
                                       off |-> c.offset, pos |-> c.pos,
                                       id |-> id])]

\* ofits::async_write_data<N>(index, buffers, token)
AsyncWriteData(N, index, buf, ub) ==
    /\ w.state = "open" /\ rdr.state = "none" /\ ops < MaxOps /\ Len(pending) < MaxPending
    /\ N \in 1..Len(w.hdus)
    /\ \E r \in { ofits_async_write_data(w.hdus[N], N, index, buf, ub, pending,
                                         Len(io.calls) + Len(pending) + 1) } :
          /\ pending' = r.queue
          /\ res' = [NoRes EXCEPT !.op = "async_write_data", !.hdu = N,
                                  !.index = index, !.buf = buf, !.off = r.offset,
                                  !.status = IF r.threw THEN "OutOfBounds"
                                             ELSE "queued"]
    /\ ops' = ops + 1
    /\ UNCHANGED <<file, w, rdr, sets, lastw, io>>

\* ofits::run(): io_context_.run() performs one queued write and calls its
\* token with (no error, bytes written); the io_context gives no order to the
\* writes it has queued.  A stopped io_context performs nothing
Complete(k) ==
    /\ w.state = "open" /\ rdr.state = "none" /\ ~io.stopped
    /\ k \in 1..Len(pending)
    /\ LET op == pending[k]
       IN /\ file' = write_at(file, op.pos, op.buf)
          /\ res' = [NoRes EXCEPT !.op = "completion", !.hdu = op.hdu,
                                  !.index = op.index, !.buf = op.buf,
                                  !.off = op.off, !.status = "ok",
                                  !.n = Len(op.buf)]
          /\ lastw' = [hdu |-> op.hdu, index |-> op.index, buf |-> op.buf,
                       off |-> op.off, pos |-> op.pos]
          /\ io' = [io EXCEPT !.calls = Append(@, [id |-> op.id, ec |-> "ok",
                                                   n |-> Len(op.buf)])]
    /\ pending' = [i \in 1..(Len(pending) - 1) |->
                      IF i < k THEN pending[i] ELSE pending[i + 1]]
    /\ UNCHANGED <<w, rdr, sets, ops>>

\* ofits::stop(): io_context_.stop(); run() returns, and returns at once when
\* it is called again; the queued writes stay queued and no token is called
Stop ==
    /\ w.state = "open" /\ rdr.state = "none" /\ ops < MaxOps /\ ~io.stopped
    /\ io' = [io EXCEPT !.stopped = TRUE]
    /\ res' = [NoRes EXCEPT !.op = "stop", !.status = "ok"]
    /\ ops' = ops + 1
    /\ UNCHANGED <<file, w, pending, rdr, sets, lastw>>

Policies == {"first", "last"}

HasRepeatedKey(hdus) ==
    \E n \in 1..Len(hdus) :
        Cardinality({hdus[n].headers[i].lkey : i \in 1..Len(hdus[n].headers)})
            < Len(hdus[n].headers)

\* what a build can make of the constructor run c: what wrapping arithmetic
\* gives, and, when an int overflowed on the way, also the end of the process
\* at the overflow (a build that traps)
CtorOutcomes(c) ==
    IF c.ub THEN {c, [state |-> "terminated", hdus |-> <<>>, ub |-> TRUE]}
    ELSE {c}

\* ifits::ifits(filename) on the file the path holds: the file the writer has
\* left, or the file that was there before any writer
ReaderOpen(policy) ==
    /\ (w.state # "none" \/ file # EmptyFile) /\ rdr.state = "none"
    /\ \E c \in { ifits_ctor(file, 0, <<>>, policy, FALSE) } :
       \E r \in CtorOutcomes(c) :
          /\ rdr' = [state  |-> r.state, hdus |-> r.hdus,
                     policy |-> IF HasRepeatedKey(r.hdus) THEN policy ELSE "first"]
          /\ res' = [NoRes EXCEPT !.op = "open",
                                  !.status = IF r.state = "open" THEN "ok"
                                             ELSE "terminate"]
    /\ UNCHANGED <<file, w, pending, sets, lastw, ops, io>>

QueryKeys == SetKeys \cup { K_dateobs, K_NOKEY }

ReadLens == { 1, 2 }

\* ifits::get_hdu<N>().value_as<std::string>(key)
ReaderValueAs(N, key) ==
    /\ rdr.state = "open" /\ res.op = "open"
    /\ N \in 1..Len(rdr.hdus)
    /\ \E r \in { ifits_value_as(rdr.hdus[N], key, rdr.policy) } :
          res' = [NoRes EXCEPT !.op = "r_value_as", !.hdu = N, !.key = key,
                               !.status = r.status, !.out = r.out]
    /\ UNCHANGED <<file, w, pending, rdr, sets, lastw, ops, io>>

\* ifits::get_hdu<N>().value_as_optional<std::string>(key)
ReaderValueAsOptional(N, key) ==
    /\ rdr.state = "open" /\ res.op = "open"
    /\ N \in 1..Len(rdr.hdus)
    /\ \E r \in { ifits_value_as_optional(rdr.hdus[N], key, rdr.policy) } :
          res' = [NoRes EXCEPT !.op = "r_value_as_optional", !.hdu = N,
                               !.key = key, !.status = r.status, !.out = r.out]
    /\ UNCHANGED <<file, w, pending, rdr, sets, lastw, ops, io>>

\* ifits::get_hdu<N>().apply(x -> x.read_data(index, buffer of n bytes))
ReaderReadData(N, index, n) ==
    /\ rdr.state = "open" /\ res.op = "open"
    /\ N \in 1..Len(rdr.hdus)
    /\ \E r \in { ifits_read_data(file, rdr.hdus[N], index, n, rdr.policy) } :
          res' = [NoRes EXCEPT !.op = "read_data", !.hdu = N, !.index = index,
                               !.off = r.off, !.status = r.status,
                               !.out = r.out, !.n = r.n, !.buf = [i \in 1..n |-> NUL]]
    /\ UNCHANGED <<file, w, pending, rdr, sets, lastw, ops, io>>

\* ifits::get_hdu<N>().apply(f), f a visitor that takes the view and returns
ReaderApply(N) ==
    /\ rdr.state = "open" /\ res.op = "open"
    /\ N \in 1..Len(rdr.hdus)
    /\ \E r \in { ifits_apply(rdr.hdus[N], rdr.policy) } :
          res' = [NoRes EXCEPT !.op = "apply", !.hdu = N, !.status = r.status,
                               !.out = r.type, !.n = r.calls]
    /\ UNCHANGED <<file, w, pending, rdr, sets, lastw, ops, io>>

\* the calls on the writer
NextWriter ==
    \/ \E schema \in Schemas : \E order \in Orders(Len(schema)) :
           Construct(schema, order)
    \/ \E N \in 1..MaxHdus : \E key \in SetKeys : \E value \in SetValues :
           SetHeader(N, key, value)
    \/ \E N \in 1..MaxHdus : \E c \in DataCalls :
           \E ub \in UbOutcomes(c[1]) : WriteData(N, c[1], c[2], ub)
    \/ \E N \in 1..MaxHdus : \E c \in DataCalls :
           \E ub \in UbOutcomes(c[1]) : AsyncWriteData(N, c[1], c[2], ub)
    \/ \E k \in 1..MaxPending : Complete(k)
    \/ Stop

\* the calls on the reader
NextReader ==
    \/ \E policy \in Policies : ReaderOpen(policy)
    \/ \E N \in 1..MaxHdus : \E key \in QueryKeys : ReaderValueAs(N, key)
    \/ \E N \in 1..MaxHdus : \E key \in QueryKeys : ReaderValueAsOptional(N, key)
    \/ \E N \in 1..MaxHdus : \E index \in ReadIndices : \E n \in ReadLens :
           ReaderReadData(N, index, n)
    \/ \E N \in 1..MaxHdus : ReaderApply(N)

Next == NextWriter \/ NextReader

Spec == Init /\ [][Next]_vars

\* a writer alone
SpecWriter == Init /\ [][NextWriter]_vars

-----------------------------------------------------------------------------
(* Writers of many schemas, each read back as constructed *)

LayoutHdus ==
    { H("u8", <<2, 3>>), H("i16", <<1500>>), H("i32", <<720>>),
      H("i64", <<19, 19>>), H("f32", <<2, 3, 2>>), H("f64", <<360>>) }

LayoutSchemas == UNION { [1..n -> LayoutHdus] : n \in 1..MaxHdus }

NextLayout ==
    \/ \E schema \in LayoutSchemas : \E order \in Orders(Len(schema)) :
           Construct(schema, order)
    \/ \E policy \in Policies : ReaderOpen(policy)

SpecLayout == Init /\ [][NextLayout]_vars

-----------------------------------------------------------------------------
(* Writers that set headers, BITPIX among them, each read back by keyword *)

HeaderSchemas ==
    { <<h>> : h \in LayoutHdus } \cup { << H("u8", <<2, 3>>), H("f32", <<2, 3, 2>>) >> }

BitpixValues == { <<"7">>, <<"0">>, <<"1", "6">>, <<"-", "3", "2">>, <<"-", "8">> }

\* the (keyword, value) pairs value_as is called with
HeaderSets == (SetKeys \X SetValues) \cup ({K_BITPIX} \X BitpixValues)

NextHeaders ==
    \/ \E schema \in HeaderSchemas : \E order \in Orders(Len(schema)) :
           Construct(schema, order)
    \/ \E N \in 1..MaxHdus : \E kv \in HeaderSets : SetHeader(N, kv[1], kv[2])
    \/ \E policy \in Policies : ReaderOpen(policy)
    \/ \E N \in 1..MaxHdus : \E key \in QueryKeys : ReaderValueAs(N, key)
    \/ \E N \in 1..MaxHdus : \E key \in QueryKeys : ReaderValueAsOptional(N, key)
    \/ \E N \in 1..MaxHdus : ReaderApply(N)

SpecHeaders == Init /\ [][NextHeaders]_vars

-----------------------------------------------------------------------------
(* A path that holds a file before the writer is constructed.  ofits::ofits   *)
(* opens it write_only | create: the file is created when there is none and   *)
(* is opened as it is when there is one.                                      *)

\* a byte of the file that was there before; no call of the writer writes it
OldByte == "x"

OldLens == { 10, 3000 }

OldFiles == { [i \in 1..n |-> OldByte] : n \in OldLens }

InitExisting ==
    /\ file \in OldFiles
    /\ w = [state |-> "none", hdus |-> <<>>]
    /\ pending = <<>>
    /\ rdr = [state |-> "none", hdus |-> <<>>, policy |-> "first"]
    /\ res = NoRes
    /\ sets = <<>>
    /\ lastw = NoWrite
    /\ ops = 0
    /\ io = NoIo

NextExisting ==
    \/ \E schema \in Schemas : \E order \in Orders(Len(schema)) :
           Construct(schema, order)
    \/ \E N \in 1..MaxHdus : \E key \in SetKeys : \E value \in SetValues :
           SetHeader(N, key, value)
    \/ \E N \in 1..MaxHdus : \E c \in DataCalls :
           \E ub \in UbOutcomes(c[1]) : WriteData(N, c[1], c[2], ub)
    \/ \E policy \in Policies : ReaderOpen(policy)

SpecExisting == InitExisting /\ [][NextExisting]_vars

-----------------------------------------------------------------------------
(* A writer that only queues writes, runs and stops its io_context.  run()    *)
(* returns when the io_context has no work left or is stopped: a queued write *)
(* of an io_context that is not stopped is performed in the end.              *)

AsyncSchemas ==
    { << H("u8", <<2, 3>>) >>, << H("u8", <<2, 3>>), H("f32", <<2, 3, 2>>) >> }

NextAsync ==
    \/ \E schema \in AsyncSchemas : \E order \in Orders(Len(schema)) :
           Construct(schema, order)
    \/ \E N \in 1..MaxHdus : \E c \in DataCalls :
           \E ub \in UbOutcomes(c[1]) : AsyncWriteData(N, c[1], c[2], ub)
    \/ \E k \in 1..MaxPending : Complete(k)
    \/ Stop

SpecAsync ==
    Init /\ [][NextAsync]_vars /\ WF_vars(\E k \in 1..MaxPending : Complete(k))

-----------------------------------------------------------------------------
(* Properties *)

\* an index list that stays inside the extents of axes
InBounds(axes, index) ==
    /\ Len(index) <= Len(axes)
    /\ \A d \in 1..Len(index) : index[d] >= 0 /\ index[d] < axes[d]

\* C1: data round trip.  When a data write with an in-bounds index has reached
\* the file and nothing was written over it, the reader opens the file, and
\* read_data on the same HDU at the same index with a buffer of the same
\* length returns exactly the bytes written and reports their number.
C1_DataRoundTrip ==
    LET live == lastw.hdu # 0
                  /\ InBounds(w.hdus[lastw.hdu].naxis, lastw.index)
    IN /\ (res.op = "open" /\ live) => res.status = "ok"
       /\ (res.op = "read_data" /\ live /\ res.hdu = lastw.hdu
             /\ res.index = lastw.index /\ Len(res.buf) = Len(lastw.buf))
          => (res.status = "ok" /\ res.out = lastw.buf
                /\ res.n = Len(lastw.buf))

RECURSIVE RowMajorSum(_, _, _)
RowMajorSum(axes, index, d) ==
    IF d > Len(index) THEN 0
    ELSE index[d] * Product(SubSeq(axes, d + 1, Len(axes)))
           + RowMajorSum(axes, index, d + 1)

\* the row-major element offset: the sum over d of index[d] times the product
\* of the extents of the axes after d
RowMajor(axes, index) == RowMajorSum(axes, index, 1)

\* C2: the index-to-offset mapping is row-major.  The byte offset a data write
\* of the writer computes, and the byte offset a data read of the reader
\* computes, both equal the element size times the row-major element offset
\* of the index, for every index list no longer than the axes list.
C2_RowMajorOffset ==
    /\ (res.op \in {"write_data", "async_write_data"}
          /\ res.status \in {"ok", "queued"}
          /\ Len(res.index) <= Len(w.hdus[res.hdu].naxis))
       => res.off = SizeOf(w.hdus[res.hdu].type)
                      * RowMajor(w.hdus[res.hdu].naxis, res.index)
    /\ (res.op = "read_data" /\ res.status \in {"ok", "Io"}
          /\ res.hdu <= Len(w.hdus)
          /\ Len(res.index) <= Len(w.hdus[res.hdu].naxis))
       => res.off = SizeOf(w.hdus[res.hdu].type)
                      * RowMajor(w.hdus[res.hdu].naxis, res.index)

\* the least multiple of the block size that is not below x
RoundUpBlock(x) ==
    ((x + kSizeHeaderBlock - 1) \div kSizeHeaderBlock) * kSizeHeaderBlock

\* C3: layout planner.  The first HDU starts at 0, every next HDU starts one
\* header block plus the rounded-up data size of its predecessor later; so every
\* HDU offset is a multiple of 2880 and the HDU regions are disjoint and in
\* schema order.
C3_LayoutPlanner ==
    w.state = "open" =>
        LET n == Len(w.hdus)
            o == [i \in 1..n |-> w.hdus[i].offset]
            bytes(i) == Product(w.hdus[i].naxis) * SizeOf(w.hdus[i].type)
        IN /\ o[1] = 0
           /\ \A i \in 1..(n - 1) :
                  o[i + 1] = o[i] + kSizeHeaderBlock + RoundUpBlock(bytes(i))
           /\ \A i \in 1..n : o[i] % kSizeHeaderBlock = 0
           /\ \A i \in 1..n : \A j \in (i + 1)..n :
                  o[i] + kSizeHeaderBlock + bytes(i) <= o[j]

\* three HDUs, the data of the first exactly one block, that of the second
\* more than one block
C3_Witness ==
    /\ w.state = "open" /\ Len(w.hdus) = 3
    /\ w.hdus[1].type = "f64" /\ w.hdus[2].type = "i64"
    /\ w.hdus[3].offset = 5 * kSizeHeaderBlock

\* the BITPIX tag of an element type
BitpixTag(t) ==
    CASE t = "u8" -> 8 [] t = "i16" -> 16 [] t = "i32" -> 32
      [] t = "i64" -> 64 [] t = "f32" -> -32 [] t = "f64" -> -64

Got(v) == [threw |-> FALSE, val |-> v]

WroteExactly(before, after, pos, buf) ==
    LET keep == Min(pos, Len(before))
        end == pos + Len(buf)
    IN /\ Len(after) = Max(Len(before), end)
       /\ SubSeq(after, 1, keep) = SubSeq(before, 1, keep)
       /\ \A p \in (Len(before) + 1)..pos : after[p] = NUL
       /\ SubSeq(after, pos + 1, end) = buf
       /\ SubSeq(after, end + 1, Len(after)) = SubSeq(before, end + 1, Len(before))

\* the range [pos, pos + n) is inside the data block of HDU i and touches no
\* header block and no data block of another HDU
InsideOwnData(i, pos, n) ==
    /\ pos >= w.hdus[i].offset + kSizeHeaderBlock
    /\ pos + n <= w.hdus[i].offset + kSizeHeaderBlock + w.hdus[i].data_block_size
    /\ \A j \in 1..Len(w.hdus) :
          /\ ~Overlap(pos, n, w.hdus[j].offset, kSizeHeaderBlock)
          /\ j # i => ~Overlap(pos, n, w.hdus[j].offset + kSizeHeaderBlock,
                               RoundUpBlock(w.hdus[j].data_block_size))

C5_Step ==
    /\ res'.op \in {"write_data", "async_write_data"} =>
          /\ (res'.off + Len(res'.buf) > w.hdus[res'.hdu].data_block_size
                => res'.status = "OutOfBounds")
          /\ (res'.status = "OutOfBounds" => file' = file /\ pending' = pending)
          /\ (res'.op = "async_write_data" => file' = file)
    /\ ((res'.op = "write_data" /\ res'.status = "ok") \/ res'.op = "completion") =>
          LET pos == w.hdus[res'.hdu].offset + kSizeHeaderBlock + res'.off
          IN /\ WroteExactly(file, file', pos, res'.buf)
             /\ InsideOwnData(res'.hdu, pos, Len(res'.buf))

\* C5: data writes stay inside their own data block.  A data write whose byte
\* offset plus length exceeds data_block_size_ fails with OutOfBounds; a failed
\* call changes nothing; a write that is performed changes exactly the bytes
\* from offset + 2880 + byte offset on, a range inside the HDU's own data block
\* that touches no header block and no other HDU's data block.  The sums are
\* those of the natural numbers.
C5_DataWritesInBlock == [][C5_Step]_vars

\* C6: a header never exceeds one 2880-byte block.  The construction of a
\* writer ends normally or with HeaderFull, and every record of every HDU, the
\* END record at slot headers_written_ included, lies inside the first 2880
\* bytes of the HDU.
C6_HeaderInOneBlock ==
    /\ res.op = "construct" => res.status \in {"ok", "HeaderFull"}
    /\ \A i \in 1..Len(w.hdus) :
          (w.hdus[i].headers_written + 1) * kRecord <= kSizeHeaderBlock

\* the number of value_as calls on HDU i that returned normally
SetsOk(i) == Cardinality({k \in 1..Len(sets) : sets[k].hdu = i})

\* C7: record count.  The record count of HDU i is the number of its axes
\* plus 4 plus the number of value_as calls on HDU i that returned normally,
\* whatever keys they had; calls on other HDUs, data writes and failed calls
\* do not change it.
C7_RecordCount ==
    w.state = "open" =>
        \A i \in 1..Len(w.hdus) :
            w.hdus[i].headers_written = Len(w.hdus[i].naxis) + 4 + SetsOk(i)

\* the same keyword set twice on the second HDU of two
C7_Witness ==
    /\ w.state = "open" /\ Len(w.hdus) = 2 /\ res.op = "value_as"
    /\ Len(sets) = 2
    /\ sets[1].hdu = 2 /\ sets[2].hdu = 2 /\ sets[1].key = sets[2].key
    /\ w.hdus[2].headers_written = 9 /\ w.hdus[1].headers_written = 6

\* C8: header set/read round trip.  When value_as(K, V) with a non-empty V
\* has returned normally on HDU N (K set once on that HDU), the reader opens
\* the file and its HDU N returns V for value_as<string> of K and of any
\* letter-case variant of K.
C8_SetReadRoundTrip ==
    /\ (res.op = "open" /\ sets # <<>>) => res.status = "ok"
    /\ res.op = "r_value_as" =>
          \A k \in 1..Len(sets) :
              (/\ sets[k].hdu = res.hdu
               /\ CaseInsensitiveEqual(sets[k].key, res.key)
               /\ sets[k].val # <<>>
               /\ \A m \in 1..Len(sets) :
                     (m # k /\ sets[m].hdu = sets[k].hdu)
                        => ~CaseInsensitiveEqual(sets[m].key, sets[k].key))
              => (res.status = "ok" /\ res.out = sets[k].val)

\* C9: header lookup round trip.  For every (key, value) pair of get_headers()
\* of an HDU of the reader, value_as<string>(key) returns value and
\* value_as_optional<string>(key) returns an optional holding value, blank
\* values and repeated keywords included.
C9_LookupRoundTrip ==
    res.op \in {"r_value_as", "r_value_as_optional"} =>
        \A i \in 1..Len(rdr.hdus[res.hdu].headers) :
            rdr.hdus[res.hdu].headers[i].key = res.key
              => (res.status = "ok"
                    /\ res.out = rdr.hdus[res.hdu].headers[i].value)

\* C10: after construction and after every set and data write the size of the
\* file is a multiple of 2880 bytes.
C10_FileSizeInBlocks ==
    w.state = "open" => Len(file) % kSizeHeaderBlock = 0

\* the size in bytes of the data a schema entry describes, rounded up to whole
\* blocks
BlockedSize(type, axes) ==
    RoundUpBlock((Product(axes) * Abs(BitpixTag(type))) \div 8)

\* C11: the data block size of every HDU descriptor, of the writer as of the
\* reader, is product(axes) * |bitpix| / 8 rounded up to a multiple of 2880; so
\* it is a multiple of 2880 and the writer and the reader agree on it.
C11_DataBlockSize ==
    /\ w.state = "open" =>
          \A i \in 1..Len(w.hdus) :
              w.hdus[i].data_block_size
                = BlockedSize(w.hdus[i].type, w.hdus[i].naxis)
    /\ (res.op = "open" /\ rdr.state = "open" /\ w.state = "open" /\ ops = 0) =>
          \A i \in 1..Len(rdr.hdus) :
              /\ i <= Len(w.hdus)
              /\ calculate_data_block_size(rdr.hdus[i], rdr.policy)
                   = Got(BlockedSize(w.hdus[i].type, w.hdus[i].naxis))
              /\ calculate_data_block_size(rdr.hdus[i], rdr.policy).val
                   = w.hdus[i].data_block_size

\* an index list write_data refuses by its first two checks: the first
\* component exceeds the first extent, or the list is longer than the axes list
Refused(axes, index) ==
    \/ index # <<>> /\ index[1] > axes[1]
    \/ Len(index) > Len(axes)

C12_Step ==
    (res'.op = "write_data" /\ Refused(w.hdus[res'.hdu].naxis, res'.index)) =>
        /\ res'.status = "OutOfBounds"
        /\ file' = file
        /\ Len(w'.hdus) = Len(w.hdus)
        /\ \A i \in 1..Len(w.hdus) :
               w'.hdus[i].headers_written = w.hdus[i].headers_written

\* C12: write_data with an index list whose first component exceeds the first
\* extent, or that is longer than the axes list, fails with OutOfBounds whatever
\* the buffer, and the call leaves the file and every record count as they were.
C12_RefusedIndex == [][C12_Step]_vars

\* the second call on a writer of one HDU of 2 x 3 bytes is a write_data of four
\* bytes with a list longer than the axes list whose first component is inside
\* the first extent: it has failed and the file has the length the constructor
\* gave it
C12_Witness ==
    /\ res.op = "write_data" /\ res.status = "OutOfBounds" /\ ops = 2
    /\ Len(res.index) > Len(w.hdus[res.hdu].naxis)
    /\ res.index[1] <= w.hdus[res.hdu].naxis[1]
    /\ res.buf = Element4
    /\ Len(file) = 6 * kRecord + kRecord

\* an index list that is one past the last valid index on one axis and inside
\* the extents on every other axis
OnePast(axes, index) ==
    /\ Len(index) <= Len(axes)
    /\ \E d \in 1..Len(index) :
          /\ index[d] = axes[d]
          /\ \A e \in 1..Len(index) : e # d => index[e] < axes[e]

\* C13: one past the maximal valid index fails.  write_data with a non-empty
\* buffer at an index list that has i_d = n_d on one axis d and is in bounds on
\* all the others fails with OutOfBounds.
C13_OnePastFails ==
    (/\ res.op = "write_data"
     /\ res.buf # <<>>
     /\ OnePast(w.hdus[res.hdu].naxis, res.index))
    => res.status = "OutOfBounds"

\* C14: writing at a valid index succeeds.  write_data of exactly one element
\* at an index list with one component per axis, every component inside its
\* extent (the maximal valid index (n1 - 1, ..., n_naxis - 1) among them),
\* succeeds.
C14_ValidIndexSucceeds ==
    (/\ res.op = "write_data"
     /\ Len(res.index) = Len(w.hdus[res.hdu].naxis)
     /\ InBounds(w.hdus[res.hdu].naxis, res.index)
     /\ Len(res.buf) = SizeOf(w.hdus[res.hdu].type))
    => (res.status = "ok" /\ res.n = Len(res.buf))

\* C15: reads are the dual of writes.  A read_data of the reader whose byte
\* offset plus buffer length exceeds the data block size of its HDU fails with
\* OutOfBounds; any other is not refused and, when it returns, has read exactly
\* the bytes at data block start + byte offset; so a read that returns has
\* read inside the data block of its HDU, no byte of a later HDU.
C15_ReadsInBlock ==
    (res.op = "read_data" /\ res.status \in {"ok", "Io", "OutOfBounds"}) =>
        LET h == rdr.hdus[res.hdu]
            size == calculate_data_block_size(h, rdr.policy).val
            len == Len(res.buf)
        IN /\ res.off + len > size => res.status = "OutOfBounds"
           /\ res.off + len <= size =>
                 /\ res.status # "OutOfBounds"
                 /\ res.status = "ok" =>
                       res.out = SubSeq(file, h.offset_ + res.off + 1,
                                        h.offset_ + res.off + len)
           /\ res.status = "ok" => res.off + res.n <= size

\* the record of the file that is slot k (from 0) of the header of writer HDU i
RecordAt(i, k) ==
    SubSeq(file, w.hdus[i].offset + k * kRecord + 1,
           w.hdus[i].offset + (k + 1) * kRecord)

\* an 80-byte value record: the keyword left-justified in bytes 0-7, "= " in
\* bytes 8-9, the value from byte 10 on, spaces after it
IsValueRecord(rec, key, value) ==
    /\ Len(rec) = kRecord
    /\ SubSeq(rec, 1, kKeyField) = Resize(key, kKeyField)
    /\ rec[kKeyField + 1] = "=" /\ rec[kKeyField + 2] = " "
    /\ SubSeq(rec, kKeyField + 3, kRecord) = Resize(value, kRecord - kKeyField - 2)

\* C16: every value record the writer emits is 80 bytes long, with the keyword
\* left-justified and space-padded in bytes 0-7, "= " in bytes 8-9 and the
\* value from byte 10 on, the rest spaces: the records of the constructor, in
\* the file it leaves, and the record of every value_as that returned normally.
C16_RecordFormat ==
    /\ (res.op = "construct" /\ res.status = "ok") =>
          \A i \in 1..Len(w.hdus) :
              LET recs == CtorRecords(w.hdus[i].type, w.hdus[i].naxis)
              IN \A k \in 1..w.hdus[i].headers_written :
                     IsValueRecord(RecordAt(i, k - 1), recs[k][1], recs[k][2])
    /\ (res.op = "value_as" /\ res.status = "ok") =>
          IsValueRecord(RecordAt(res.hdu, w.hdus[res.hdu].headers_written - 1),
                        res.key, res.val)

\* no header of the list has the keyword, letter case apart
Absent(headers, key) ==
    \A i \in 1..Len(headers) : ~CaseInsensitiveEqual(headers[i].key, key)

C17_Step ==
    (/\ res'.op \in {"r_value_as", "r_value_as_optional"}
     /\ Absent(rdr.hdus[res'.hdu].headers, res'.key))
    => /\ res'.op = "r_value_as" => res'.status = "NotFound"
       /\ res'.op = "r_value_as_optional" => res'.status = "empty"
       /\ res'.out = <<>>
       /\ rdr' = rdr

\* C17: absent-key lookup.  For a key that matches no parsed keyword of the
\* HDU, letter case apart, value_as fails with NotFound and value_as_optional
\* returns an empty optional, and neither changes the headers of the reader.
C17_AbsentKey == [][C17_Step]_vars

\* value_as has failed with NotFound on the second HDU of a file whose first
\* HDU had two headers set
C17_Witness ==
    /\ res.op = "r_value_as" /\ res.status = "NotFound" /\ res.hdu = 2
    /\ res.key = K_NOKEY
    /\ Len(sets) = 2 /\ sets[1].hdu = 1 /\ sets[2].hdu = 1
    /\ Absent(rdr.hdus[2].headers, K_NOKEY)

\* the element type of a BITPIX tag
TypeOfBitpix(b) ==
    CASE b = 8 -> "u8" [] b = 16 -> "i16" [] b = 32 -> "i32"
      [] b = 64 -> "i64" [] b = -32 -> "f32" [] b = -64 -> "f64"

\* C18: apply dispatches on the stored BITPIX.  For BITPIX 8, 16, 32, 64, -32,
\* -64 the visitor is called exactly once with a view of element type u8, i16,
\* i32, i64, f32, f64 (on a file just constructed: the element type the writer
\* has for the HDU); for every other BITPIX apply fails with UnsupportedBitpix
\* and the visitor is not called.
C18_ApplyDispatch ==
    res.op = "apply" =>
        LET b == get_BITPIX(rdr.hdus[res.hdu], rdr.policy).val
        IN /\ b \in {8, 16, 32, 64, -32, -64} =>
                 /\ res.status = "ok" /\ res.n = 1
                 /\ res.out = <<TypeOfBitpix(b)>>
           /\ b \notin {8, 16, 32, 64, -32, -64} =>
                 res.status = "UnsupportedBitpix" /\ res.n = 0
           /\ (ops = 0 /\ w.state = "open") =>
                 res.out = <<w.hdus[res.hdu].type>>

\* apply has been refused on an HDU constructed for doubles whose BITPIX was
\* set to 7 afterwards
C18_Witness ==
    /\ res.op = "apply" /\ res.status = "UnsupportedBitpix" /\ res.n = 0
    /\ w.hdus[res.hdu].type = "f64"
    /\ get_BITPIX(rdr.hdus[res.hdu], rdr.policy).val = 7

\* C19: reader failure semantics.  Opening a file whose header has no END
\* record before the end of the file, or lacks BITPIX, NAXIS or a NAXISk, or
\* has a value for one of them that is no number, ends with a FormatError the
\* caller can catch: the process is not ended and no reader with a part of the
\* HDUs is returned.
C19_ReaderFailsCleanly ==
    res.op = "open" =>
        /\ res.status \in {"ok", "FormatError"}
        /\ res.status = "FormatError" => rdr.state # "open"

\* the file a writer of the schema of w leaves on a path that held no file
FreshFile ==
    LET schema == [i \in 1..Len(w.hdus) |-> H(w.hdus[i].type, w.hdus[i].naxis)]
    IN make_hdu_tuple_impl(EmptyFile, schema, make_hdu_offsets(schema, 0),
                           [i \in 1..Len(schema) |-> i],
                           [i \in 1..Len(schema) |-> <<>>]).file

\* C20: write-open discards what the path held.  Once a writer is constructed
\* on a path that holds a file, no byte of that file remains, and the file the
\* constructor leaves is the one it leaves on a path that held none, of the
\* same size.
C20_OpenDiscards ==
    w.state = "open" =>
        /\ \A p \in 1..Len(file) : file[p] # OldByte
        /\ ops = 0 => file = FreshFile

\* the write issued as the id-th is queued and its token has not been called
IsPending(id) == \E k \in 1..Len(pending) : pending[k].id = id

\* the token of the id-th write has been called exactly once, with a
\* cancellation error code
Cancelled(id) ==
    /\ Cardinality({c \in 1..Len(io.calls) : io.calls[c].id = id}) = 1
    /\ \A c \in 1..Len(io.calls) :
           io.calls[c].id = id => io.calls[c].ec = "cancelled"

\* C21: cancellation.  After stop() every asynchronous write that was issued
\* and has not completed gets its completion token called exactly once, with a
\* cancellation error code: none is left with its completion never delivered.
C21_StopCancels ==
    \A id \in 1..MaxOps : (io.stopped /\ IsPending(id)) ~> Cancelled(id)

\* the write whose token the step calls
Completed == io'.calls[Len(io'.calls)]

C22_Step ==
    res'.op = "completion" =>
        \A k \in 1..Len(pending) : \A q \in 1..Len(pending') :
            (/\ pending[k].id = Completed.id
             /\ pending'[q].id < Completed.id)
            => ~Overlap(pending'[q].pos, Len(pending'[q].buf),
                        pending[k].pos, Len(pending[k].buf))

\* C22: issue-order completion.  Of two asynchronous writes issued on one
\* writer to byte ranges that overlap, the completion token of the one issued
\* first is called first (and so the bytes they share end with the content of
\* the one issued last): no token is called while a write issued earlier to an
\* overlapping range is still queued.
C22_IssueOrder == [][C22_Step]_vars

\* a writer of two HDUs whose first header takes all 36 slots, and a plain one
SlotSchemas ==
    { << H("i16", Ones(32)), H("u8", <<2, 3>>) >>, << H("u8", <<2, 3>>) >> }

NextSlots ==
    \/ \E schema \in SlotSchemas : \E order \in Orders(Len(schema)) :
           Construct(schema, order)
    \/ \E N \in 1..MaxHdus : \E key \in SetKeys : \E value \in SetValues :
           SetHeader(N, key, value)
    \/ \E N \in 1..MaxHdus : \E c \in DataCalls :
           \E ub \in UbOutcomes(c[1]) : WriteData(N, c[1], c[2], ub)
    \/ \E policy \in Policies : ReaderOpen(policy)

SpecSlots == Init /\ [][NextSlots]_vars

\* the keyword a record starts with: its bytes up to the first space or NUL
KeywordOf(rec) ==
    LET stops == {k \in 1..Len(rec) : rec[k] \in {" ", NUL}}
    IN IF stops = {} THEN rec
       ELSE SubSeq(rec, 1, (CHOOSE k \in stops : \A j \in stops : k <= j) - 1)

\* the keys of the value_as calls on HDU i that returned normally, in call order
RECURSIVE UserKeys(_, _)
UserKeys(i, calls) ==
    IF calls = <<>> THEN <<>>
    ELSE (IF Head(calls).hdu = i THEN <<Head(calls).key>> ELSE <<>>)
         \o UserKeys(i, Tail(calls))

\* the keywords HDU i is to hold below END, from slot 0
SlotKeys(i) ==
    <<K_SIMPLE, K_BITPIX, K_NAXIS>>
    \o [d \in 1..Len(w.hdus[i].naxis) |-> K_NAXIS \o to_string(d)]
    \o <<K_EXTEND>> \o UserKeys(i, sets)

\* C23: header slot order.  After a construction and after every value_as that
\* returned normally, the slots of every HDU hold, from slot 0, SIMPLE (with
\* the value T), BITPIX, NAXIS, NAXIS1..NAXISn, EXTEND and then the keys of
\* the value_as calls on that HDU in call order; the slot whose number is the
\* record count holds END and no slot below it does; the record just set is in
\* the slot END had before the call.
C23_SlotOrder ==
    (w.state = "open" /\ res.op \in {"construct", "value_as"} /\ res.status = "ok")
    => /\ \A i \in 1..Len(w.hdus) :
              LET c == w.hdus[i].headers_written
              IN /\ c = Len(SlotKeys(i))
                 /\ \A k \in 1..c :
                        /\ KeywordOf(RecordAt(i, k - 1)) = SlotKeys(i)[k]
                        /\ KeywordOf(RecordAt(i, k - 1)) # K_END
                 /\ erase_all(erase_all(erase_all(RecordAt(i, 0), " "), "="), NUL)
                        = K_SIMPLE \o <<"T">>
                 /\ KeywordOf(RecordAt(i, c)) = K_END
       /\ res.op = "value_as" =>
              KeywordOf(RecordAt(res.hdu, w.hdus[res.hdu].headers_written - 1))
                  = res.key

\* (keyword, value) pairs with a tab before the keyword, a '/' in the value,
\* and plain ones
ParseSets ==
    { <<K_TAB_AB, <<"7">> >>, <<K_DATEOBS, <<"7", "/", "8">> >>,
      <<K_AB, <<"7">> >>, <<K_DATEOBS, <<>> >> }

NextParse ==
    \/ \E schema \in AsyncSchemas : \E order \in Orders(Len(schema)) :
           Construct(schema, order)
    \/ \E N \in 1..MaxHdus : \E kv \in ParseSets : SetHeader(N, kv[1], kv[2])
    \/ \E policy \in Policies : ReaderOpen(policy)

\* a writer that sets headers, and a reader opened on its file
SpecParse == Init /\ [][NextParse]_vars

\* where the reader started to parse its HDU i: the start of the file, or the
\* end of the data block it computed for the HDU before
ReaderStart(i) ==
    IF i = 1 THEN 0
    ELSE rdr.hdus[i - 1].offset_
           + calculate_data_block_size(rdr.hdus[i - 1], rdr.policy).val

\* the 80 bytes of the file from byte `at`
FileRecord(at) == SubSeq(file, at + 1, at + kRecord)

\* the keyword of a record: bytes 0..7 without spaces and '='
FieldKey(rec) ==
    SelectSeq(SubSeq(rec, 1, kKeyField), LAMBDA x : x \notin {" ", "="})

\* the value of a record: bytes 8..37 up to the first '/', without spaces
\* and '='
FieldValue(rec) ==
    LET field == SubSeq(rec, kKeyField + 1, kKeyField + kValueField)
        keep  == {k \in 1..Len(field) : \A j \in 1..k : field[j] # "/"}
    IN SelectSeq(SubSeq(field, 1, Cardinality(keep)),
                 LAMBDA x : x \notin {" ", "="})

\* C24 as stated: header parse.  The headers the reader holds for an HDU
\* are, one for one and in file order, the records from the start of the HDU
\* up to its first record with the keyword END: each with the keyword bytes
\* 0..7 without spaces and '=' and the value bytes 8..37 cut at the first '/'
\* and then without spaces and '='.  END is not among them, and nothing after
\* END is.
C24_HeaderParse ==
    rdr.state = "open" =>
        \A i \in 1..Len(rdr.hdus) :
            LET hs == rdr.hdus[i].headers
            IN /\ \A k \in 1..Len(hs) :
                      LET rec == FileRecord(ReaderStart(i) + (k - 1) * kRecord)
                      IN /\ hs[k].key = FieldKey(rec)
                         /\ hs[k].value = FieldValue(rec)
                         /\ hs[k].key # K_END
               /\ FieldKey(FileRecord(ReaderStart(i) + Len(hs) * kRecord)) = K_END

\* the keyword of a record: bytes 0..7 from the first to the last byte that
\* is not white space, without spaces and '='
FieldKeyTrimmed(rec) ==
    LET inner == {k \in 1..kKeyField : rec[k] \notin WhiteSpace}
        kept  == {k \in 1..kKeyField :
                     /\ rec[k] \notin {" ", "="}
                     /\ \E a \in inner : \E b \in inner : a <= k /\ k <= b}
    IN [j \in 1..Cardinality(kept) |->
           rec[CHOOSE k \in kept : Cardinality({m \in kept : m <= k}) = j]]

\* C24, amended: header parse.  As stated, except that the keyword is bytes
\* 0..7 with the white space of any kind (tab, line feed, ...) before its
\* first and after its last other byte removed as well as every space and
\* '='.
C24_HeaderParseTrimmed ==
    rdr.state = "open" =>
        \A i \in 1..Len(rdr.hdus) :
            LET hs == rdr.hdus[i].headers
            IN /\ \A k \in 1..Len(hs) :
                      LET rec == FileRecord(ReaderStart(i) + (k - 1) * kRecord)
                      IN /\ hs[k].key = FieldKeyTrimmed(rec)
                         /\ hs[k].value = FieldValue(rec)
                         /\ hs[k].key # K_END
               /\ FieldKeyTrimmed(FileRecord(ReaderStart(i) + Len(hs) * kRecord))
                      = K_END

\* a reader of a file with the records of value_as("\tAB", "7") and of
\* value_as("DATE-OBS", "7/8"): the first was read with the keyword AB7, the
\* tab gone, the second with the value 7
C24_Witness ==
    /\ rdr.state = "open" /\ Len(sets) = 2
    /\ sets[1].key = K_TAB_AB /\ sets[2].val = <<"7", "/", "8">>
    /\ \E i \in 1..Len(rdr.hdus) : \E k \in 1..Len(rdr.hdus[i].headers) :
           rdr.hdus[i].headers[k].key = <<"A", "B", "7">>
    /\ \E i \in 1..Len(rdr.hdus) : \E k \in 1..Len(rdr.hdus[i].headers) :
           /\ rdr.hdus[i].headers[k].key = K_DATEOBS
           /\ rdr.hdus[i].headers[k].value = <<"7">>

C25_Step ==
    (res'.op = "value_as" /\ res'.status = "HeaderFull")
    => /\ file' = file
       /\ w' = w
       /\ pending' = pending /\ io' = io
       /\ sets' = sets

\* C25: a value_as that fails for want of a slot has no effect.  The call
\* raises its error and writes nothing: the bytes of the file, the record
\* count and offsets of every HDU (and with them the place of every END), the
\* queued writes and the list of completed sets are after the call what they
\* were before it, so whatever is called next starts from the same state as
\* without the failed call.
C25_FailedSetNoEffect == [][C25_Step]_vars

\* a value_as on a header of 35 records returned normally and filled it; the
\* next one failed
C25_Witness ==
    /\ res.op = "value_as" /\ res.status = "HeaderFull"
    /\ Len(sets) = 1 /\ sets[1].hdu = res.hdu
    /\ w.hdus[res.hdu].headers_written * kRecord = kSizeHeaderBlock

\* every full-length in-bounds index of the extents 2 x 3 and 2 x 3 x 2, each
\* with the bytes of one element of its HDU
IndexCalls ==
    { << <<a, b>>, <<"a">> >> : a \in 0..1, b \in 0..2 }
      \cup { << <<a, b, c>>, Element4 >> : a \in 0..1, b \in 0..2, c \in 0..1 }

NextIndex ==
    \/ \E schema \in AsyncSchemas : \E order \in Orders(Len(schema)) :
           Construct(schema, order)
    \/ \E N \in 1..MaxHdus : \E c \in IndexCalls : WriteData(N, c[1], c[2], FALSE)

\* a writer called with in-bounds indices only
SpecIndex == Init /\ [][NextIndex]_vars

\* index has one component for every axis of h, each below its extent
FullInBounds(h, index) ==
    /\ Len(index) = Len(h.naxis)
    /\ \A d \in 1..Len(index) : index[d] < h.naxis[d]

C26_Step ==
    (/\ res'.op = "write_data" /\ res'.status = "ok"
     /\ lastw.hdu = res'.hdu
     /\ FullInBounds(w.hdus[res'.hdu], lastw.index)
     /\ FullInBounds(w.hdus[res'.hdu], res'.index)
     /\ lastw.index # res'.index
     /\ Len(lastw.buf) = SizeOf(w.hdus[res'.hdu].type)
     /\ Len(res'.buf) = SizeOf(w.hdus[res'.hdu].type))
    => /\ ~Overlap(lastw.pos, Len(lastw.buf), lastw'.pos, Len(lastw'.buf))
       /\ SubSeq(file', lastw.pos + 1, lastw.pos + Len(lastw.buf)) = lastw.buf

\* C26: the index mapping is injective.  Two different full-length in-bounds
\* indices of one HDU are mapped to byte offsets at least one element apart:
\* a write of one element at one of them, made after a write of one element
\* at the other, touches none of its bytes and leaves them in the file.
C26_Injective == [][C26_Step]_vars

\* the offset of the END record of the reader's HDU i: its headers are the
\* records before it
EndOffset(i) == ReaderStart(i) + Len(rdr.hdus[i].headers) * kRecord

\* C27: the reader's data-block start.  For every HDU the reader parsed, the
\* data-block start it recorded is the end of the 2880-byte block that holds
\* the END record: the smallest multiple of 2880 greater than the offset of
\* END, also when END begins on a multiple of 2880.
C27_DataStart ==
    rdr.state = "open" =>
        \A i \in 1..Len(rdr.hdus) :
            rdr.hdus[i].offset_
                = (EndOffset(i) \div kSizeHeaderBlock + 1) * kSizeHeaderBlock

\* HDUs with 2048 and 4095 elements, more than the largest int, a small one,
\* and one whose header takes all 36 slots
WideHdus ==
    { H("u8", <<64, 32>>), H("i16", <<65, 63>>), H("u8", <<2, 3>>),
      H("i16", Ones(32)) }

WideSchemas == UNION { [1..n -> WideHdus] : n \in 1..MaxHdus }

NextWide ==
    \/ \E schema \in WideSchemas : \E order \in Orders(Len(schema)) :
           Construct(schema, order)
    \/ \E policy \in Policies : ReaderOpen(policy)

\* writers of schemas with large extents, each read back as constructed
SpecWide == Init /\ [][NextWide]_vars

\* C28: the reader and the planner agree.  A reader opened on a file the
\* writer has just constructed, also of a schema whose product of extents does
\* not fit an int, has the HDUs of the schema, found each at the offset the
\* writer's planner gave it, and computes for each the data block size the
\* planner used: the bytes of the elements rounded up to a multiple of 2880.
C28_ReaderAgrees ==
    (res.op = "open" /\ w.state = "open" /\ ops = 0) =>
        /\ rdr.state = "open"
        /\ Len(rdr.hdus) = Len(w.hdus)
        /\ \A i \in 1..Len(rdr.hdus) :
              /\ ReaderStart(i) = w.hdus[i].offset
              /\ calculate_data_block_size(rdr.hdus[i], rdr.policy).val
                   = ofits_round_offset(naxis_product(SizeOf(w.hdus[i].type),
                                                      w.hdus[i].naxis))

C29_Step ==
    /\ (res'.op = "async_write_data" /\ res'.status = "OutOfBounds")
       => /\ pending' = pending
          /\ file' = file
          /\ io' = io
    /\ res'.op = "completion"
       => /\ \E ub \in UbOutcomes(res'.index) :
                 ~ofits_write_check(w.hdus[res'.hdu], res'.index, res'.buf, ub).threw
          /\ Completed.ec = "ok" /\ Completed.n = Len(res'.buf)

\* C29: async_write_data checks before it queues.  A call whose index or
\* buffer fails the bounds checks raises its error to the caller and leaves
\* the queued writes, the file and the record of invoked tokens as they were;
\* every token that is invoked belongs to a call that passes the checks and
\* gets (no error, the bytes of the buffer).
C29_ValidateFirst == [][C29_Step]_vars

\* two asynchronous writes were issued: one was refused, the other was
\* performed and its token invoked; nothing is queued
C29_Witness ==
    /\ res.op = "completion" /\ ops = 2 /\ ~io.stopped
    /\ Len(io.calls) = 1 /\ pending = <<>>

\* C30: the reader's constructor ends on every file.  Every call of it ends,
\* with a list of HDUs or with an error.  When it ends with a list, the
\* offset at which the loop looked for the next HDU grew with every HDU it
\* recorded, so none is recorded twice: the END record of each HDU lies at or
\* after the start of the HDU, inside the file, every HDU after the first
\* starts inside the file, and the offset after the last one is at or after
\* the end of the file.
C30_CtorEnds ==
    /\ res.op = "open" => rdr.state \in {"open", "terminated"}
    /\ rdr.state = "open" =>
          /\ Len(rdr.hdus) >= 1
          /\ \A i \in 1..Len(rdr.hdus) :
                /\ ReaderStart(i) <= EndOffset(i)
                /\ EndOffset(i) + kRecord <= Len(file)
                /\ FieldKeyTrimmed(FileRecord(EndOffset(i))) = K_END
                /\ ReaderStart(i) < ReaderStart(i + 1)
                /\ i > 1 => ReaderStart(i) < Len(file)
          /\ Len(file) <= ReaderStart(Len(rdr.hdus) + 1)

\* a reader of two HDUs, the END record of the first on a multiple of 2880
C30_Witness ==
    /\ res.op = "open" /\ rdr.state = "open" /\ Len(rdr.hdus) = 2
    /\ EndOffset(1) = kSizeHeaderBlock

====
